---- MODULE Spec2Model ----
(***************************************************************************)
(* Payment providers of a custodial wallet service.                        *)
(*                                                                         *)
(*   src/ethereumProvider.js  account model  (nonce per wallet)            *)
(*   src/bitcoinProvider.js   output model   (unspent outputs)             *)
(*                                                                         *)
(* Amounts are integers in the chain's minor unit (wei, satoshi): the      *)
(* providers compute with arbitrary-precision decimals (big.js), whose     *)
(* plus/minus/times on the values used here are exact.                     *)
(***************************************************************************)
EXTENDS Integers, Sequences, FiniteSets, TLC

VARIABLES
    \* ---- account-model node, as seen through web3 / JSON-RPC
    ethBalance,     \* address -> confirmed balance            (eth_getBalance 'latest')
    ethGasPrice,    \* current gas price                       (eth_gasPrice)
    ethTxCount,     \* address -> pending transaction count    (eth_getTransactionCount)
    ethHeight,      \* current block number                    (eth_blockNumber)
    ethReceipt,     \* hash -> <<>> (no receipt) or <<[status, blockNumber]>>
    \* ---- account-model provider calls
    prepared,       \* the last preparePayment call: its arguments, what it read, its result
    issued,         \* the sequencing-state objects returned so far (prepareData / data)
    signed,         \* the signed transactions returned so far, with the call that made each
    thrown,         \* number of signTransaction calls that ended in an exception
    ethAnswer,      \* <<>> or <<the last isConfirmedTransactionByHash call: reads, result>>
    \* ---- output-model explorer and provider calls
    btcTx,          \* hash -> <<>> (unknown to the explorer) or <<[confirmations]>>
    btcAnswer,      \* <<>> or <<the last isConfirmedTransactionByHash call: reads, result>>
    btcUtxo,        \* the unspent outputs of the reserve wallets the explorer lists
    btcEstimate,    \* the explorer's fee estimate for 2 blocks, satoshi per kB
    btcPrepared,    \* <<>> or <<the last output-model preparePayment call>>
    btcBatches,     \* the batches prepared and not yet broadcast, in order
    \* ---- deposits
    ethReceived,    \* <<>> or <<the last account-model getReceivedTransactions call>>
    btcReceived     \* <<>> or <<the last output-model getReceivedTransactions call>>

ethChainVars == <<ethBalance, ethGasPrice, ethTxCount>>
ethBlockVars == <<ethHeight, ethReceipt, ethAnswer>>
payVars      == <<prepared>>
signVars     == <<issued, signed, thrown>>
btcVars      == <<btcTx, btcAnswer>>
btcPayVars   == <<btcUtxo, btcEstimate, btcPrepared, btcBatches>>
depositVars  == <<ethReceived, btcReceived>>
vars == <<ethBalance, ethGasPrice, ethTxCount, ethHeight, ethReceipt,
          prepared, issued, signed, thrown, ethAnswer, btcTx, btcAnswer,
          btcUtxo, btcEstimate, btcPrepared, btcBatches, ethReceived, btcReceived>>

----------------------------------------------------------------------------
(* Bounds of the model                                                     *)

\* Longest list of payment requests given to one preparePayment call.
MaxRequests == 3
\* Most signTransaction calls in one behaviour.
MaxSigned == 3
\* Highest block number the node reaches.
MaxHeight == 5
\* Highest confirmation count the explorer reports.
MaxConfirmations == 4

----------------------------------------------------------------------------
(* Values                                                                  *)

\* this.reserveWallets: the provider's reserve wallets, in their fixed order.
ReserveWallets ==
    << [address |-> "a1", privateKey |-> "k1"],
       [address |-> "a2", privateKey |-> "k2"] >>

Addresses == { ReserveWallets[i].address : i \in 1..Len(ReserveWallets) }

\* Destinations, request identifiers and task names used as inputs.
Destinations == {"d1"}
RequestIds   == <<"A", "B", "C", "D">>
Tasks        == {"t1", "t2"}
Hashes       == {"h1", "h2"}

\* Input values: wei amounts around the fee of one transfer (gasPrice x 21000).
Balances       == {0, 30000, 50000}
PendingSpends  == {0, 30000, 90000}
Amounts        == {20000, 30000, 40000}
SignedAmounts  == {8000}
GasPrices      == {1, 2}
Nonces         == {0, 7}

\* The JavaScript value null, as the value of an expression that may also be a
\* boolean; the booleans are written "true" and "false" next to it.
Null == "null"

JsBool(b) == IF b THEN "true" ELSE "false"

RECURSIVE SumSeq(_)
SumSeq(s) == IF s = <<>> THEN 0 ELSE Head(s) + SumSeq(Tail(s))

\* All sequences over S of length at most n.
SeqUpTo(S, n) == UNION { [1..k -> S] : k \in 0..n }

----------------------------------------------------------------------------
(* Account model: balance reconciliation and allocation                    *)

\* A payment request as the caller supplies it: {address, amount, id}.
Request(id, address, amount) == [id |-> id, address |-> address, amount |-> amount]

\* The lists of requests given to preparePayment: up to MaxRequests requests,
\* with distinct identifiers, each to some destination for some amount.
RequestLists ==
    UNION { { [i \in 1..k |-> Request(RequestIds[i], "d1", am[i])] :
                am \in [1..k -> Amounts] } : k \in 0..MaxRequests }

\* The spentBalances argument: [{address, balance}], at most one entry per wallet.
SpentLists ==
    { s \in SeqUpTo([address : Addresses, balance : PendingSpends], Len(ReserveWallets)) :
        \A i, j \in 1..Len(s) : i # j => s[i].address # s[j].address }

\* utils.toHashMap(list, 'address', 'balance'): the object mapping each entry's
\* address to its balance.  A JavaScript object is a function on its own keys.
ToHashMap(list) ==
    [a \in { list[i].address : i \in 1..Len(list) } |->
        (CHOOSE e \in { list[i] : i \in 1..Len(list) } : e.address = a).balance]

\* obj[key] is undefined when the object has no such key; a number is truthy
\* iff it is not 0.  Truthy(obj, key) is the value of `obj[key] ? .. : ..`'s test.
Truthy(obj, key) == key \in DOMAIN obj /\ obj[key] # 0

\* getBalance(address).confirmed: the confirmed balance the node reports.
GetBalance(address) == [confirmed |-> ethBalance[address]]

\* A change of getReserveWithSpentBalances: the pending spend is ignored.
GetReserveIgnoringSpent(wallets, spentBalances) ==
    [i \in 1..Len(wallets) |->
        [address    |-> wallets[i].address,
         privateKey |-> wallets[i].privateKey,
         balance    |-> GetBalance(wallets[i].address).confirmed]]

\* getReserveWithSpentBalances(wallets, spentBalances): every wallet with the
\* field `balance` added (R.assoc), in input order (Promise.all).
GetReserveWithSpentBalances(wallets, spentBalances) ==
    [i \in 1..Len(wallets) |->
        LET wallet  == wallets[i]
            balance == GetBalance(wallet.address).confirmed
        IN  [address    |-> wallet.address,
             privateKey |-> wallet.privateKey,
             balance    |-> IF Truthy(spentBalances, wallet.address)
                              THEN balance - spentBalances[wallet.address]
                              ELSE balance]]

\* The first wallet, in order, whose remaining capacity covers the amount; 0 if none.
FirstFit(remaining, amount) ==
    LET fits == { i \in 1..Len(remaining) : remaining[i] >= amount }
    IN  IF fits = {} THEN 0 ELSE CHOOSE i \in fits : \A j \in fits : i <= j

RECURSIVE WalletsSelectFrom(_, _, _, _)
WalletsSelectFrom(reserves, remaining, txs, acc) ==
    IF txs = <<>> THEN acc
    ELSE LET tx == Head(txs)
             i  == FirstFit(remaining, tx.amount)
         IN  IF i = 0
               THEN WalletsSelectFrom(reserves, remaining, Tail(txs),
                        [acc EXCEPT !.failedTransactions =
                            Append(@, [id |-> tx.id, amount |-> tx.amount,
                                       toAddress |-> tx.address])])
               ELSE WalletsSelectFrom(reserves,
                        [remaining EXCEPT ![i] = @ - tx.amount], Tail(txs),
                        [acc EXCEPT !.successTransactions =
                            Append(@, [id |-> tx.id, amount |-> tx.amount,
                                       toAddress |-> tx.address,
                                       wallet |-> [address    |-> reserves[i].address,
                                                   privateKey |-> reserves[i].privateKey]])])

\* commonProvider.walletsSelect(reserves, requests): requests in caller order,
\* each assigned to the first wallet whose remaining capacity covers it.
WalletsSelect(reserves, txs) ==
    WalletsSelectFrom(reserves, [i \in 1..Len(reserves) |-> reserves[i].balance], txs,
                      [failedTransactions |-> <<>>, successTransactions |-> <<>>])

\* Gas of a plain transfer: the 21000 of `0.000000000000021 = 21000 / 1e18`
\* and of gas: '0x5208'.
GasLimit == 21000

\* The sequencing state preparePayment returns as prepareData: the gas price
\* and every reserve wallet's pending transaction count, read from the node.
PrepareData(wallets) ==
    [gasPrice |-> ethGasPrice,
     wallets  |-> [a \in { wallets[i].address : i \in 1..Len(wallets) } |->
                      [nonce |-> ethTxCount[a]]]]

\* A change of preparePayment: the failed requests are left out of the result.
PreparePaymentDroppingFailed(toAddresses, spentBalances) ==
    LET reserves == GetReserveWithSpentBalances(ReserveWallets, ToHashMap(spentBalances))
        fee      == ethGasPrice * GasLimit
        sel      == WalletsSelect(reserves,
                        [i \in 1..Len(toAddresses) |->
                            [id |-> toAddresses[i].id, address |-> toAddresses[i].address,
                             amount |-> toAddresses[i].amount, fee |-> fee]])
    IN  [fee |-> fee,
         prepareData |-> PrepareData(ReserveWallets),
         failedTransactions  |-> <<>>,
         successTransactions |->
             [i \in 1..Len(sel.successTransactions) |->
                 [sel.successTransactions[i] EXCEPT !.amount = @ - fee]]]

\* A change of preparePayment: the requests reach allocation in reverse order.
PreparePaymentReversingRequests(toAddresses, spentBalances) ==
    LET reserves == GetReserveWithSpentBalances(ReserveWallets, ToHashMap(spentBalances))
        fee      == ethGasPrice * GasLimit
        n        == Len(toAddresses)
        sel      == WalletsSelect(reserves,
                        [i \in 1..n |->
                            [id |-> toAddresses[n + 1 - i].id,
                             address |-> toAddresses[n + 1 - i].address,
                             amount |-> toAddresses[n + 1 - i].amount, fee |-> fee]])
    IN  [fee |-> fee,
         prepareData |-> PrepareData(ReserveWallets),
         failedTransactions  |-> sel.failedTransactions,
         successTransactions |->
             [i \in 1..Len(sel.successTransactions) |->
                 [sel.successTransactions[i] EXCEPT !.amount = @ - fee]]]

\* A change of preparePayment: the fee is added to the amount of a successful
\* request instead of taken from it.
PreparePaymentAddingFee(toAddresses, spentBalances) ==
    LET reserves == GetReserveWithSpentBalances(ReserveWallets, ToHashMap(spentBalances))
        fee      == ethGasPrice * GasLimit
        sel      == WalletsSelect(reserves,
                        [i \in 1..Len(toAddresses) |->
                            [id |-> toAddresses[i].id, address |-> toAddresses[i].address,
                             amount |-> toAddresses[i].amount, fee |-> fee]])
    IN  [fee |-> fee,
         prepareData |-> PrepareData(ReserveWallets),
         failedTransactions  |-> sel.failedTransactions,
         successTransactions |->
             [i \in 1..Len(sel.successTransactions) |->
                 [sel.successTransactions[i] EXCEPT !.amount = @ + fee]]]

\* preparePayment(toAddresses, spentBalances)
PreparePayment(toAddresses, spentBalances) ==
    LET wallets              == ReserveWallets
        spentBalancesHashMap == ToHashMap(spentBalances)
        reserves             == GetReserveWithSpentBalances(wallets, spentBalancesHashMap)
        gasPrice             == ethGasPrice
        fee                  == gasPrice * GasLimit
        toAddressesWithFee   ==
            [i \in 1..Len(toAddresses) |->
                [id |-> toAddresses[i].id, address |-> toAddresses[i].address,
                 amount |-> toAddresses[i].amount, fee |-> fee]]
        sel                  == WalletsSelect(reserves, toAddressesWithFee)
    IN  [fee |-> fee,
         prepareData |-> PrepareData(wallets),
         failedTransactions  |-> sel.failedTransactions,
         successTransactions |->
             [i \in 1..Len(sel.successTransactions) |->
                 [sel.successTransactions[i] EXCEPT !.amount = @ - fee]]]

\* The record of a preparePayment call before any call was made.
NotPrepared ==
    [called |-> FALSE, toAddresses |-> <<>>, spentBalances |-> <<>>,
     confirmed |-> [a \in Addresses |-> 0], reserves |-> <<>>, outcome |-> "none",
     result |-> [fee |-> 0,
                 prepareData |-> [gasPrice |-> 0,
                                  wallets |-> [a \in Addresses |-> [nonce |-> 0]]],
                 failedTransactions |-> <<>>, successTransactions |-> <<>>]]

\* A caller calls preparePayment (one call at a time is followed); the call
\* returns its result: it has no path that raises on its arguments.
PreparePaymentCall ==
    \E toAddresses \in RequestLists, spentBalances \in SpentLists :
        /\ ~prepared.called
        /\ prepared' = [called        |-> TRUE,
                        toAddresses   |-> toAddresses,
                        spentBalances |-> spentBalances,
                        confirmed     |-> ethBalance,
                        reserves      |-> GetReserveWithSpentBalances(ReserveWallets,
                                              ToHashMap(spentBalances)),
                        outcome       |-> "returned",
                        result        |-> PreparePayment(toAddresses, spentBalances)]
        /\ UNCHANGED <<ethChainVars, ethBlockVars, signVars, btcVars,
                 btcPayVars, depositVars>>

\* The caller has taken the result; the next call can be followed.
PreparePaymentTaken ==
    /\ prepared.called
    /\ prepared' = NotPrepared
    /\ UNCHANGED <<ethChainVars, ethBlockVars, signVars, btcVars,
                 btcPayVars, depositVars>>

\* Between calls the node's view of the chain moves on: a reserve wallet's
\* confirmed balance changes (a deposit or a payment confirms) or the gas price
\* changes.
EthChainMoves ==
    /\ ~prepared.called
    /\ \E b \in [Addresses -> Balances], g \in GasPrices :
          /\ <<b, g>> # <<ethBalance, ethGasPrice>>
          /\ ethBalance' = b
          /\ ethGasPrice' = g
    /\ UNCHANGED <<ethTxCount, ethBlockVars, payVars, signVars, btcVars,
                 btcPayVars, depositVars>>

\* The parts of the state a specification does not follow stay as they are here.
IdleEthChain ==
    /\ ethBalance = [a \in Addresses |-> 0]
    /\ ethGasPrice = CHOOSE g \in GasPrices : \A h \in GasPrices : g <= h
    /\ ethTxCount = [a \in Addresses |-> 0]

IdleEthBlocks ==
    /\ ethHeight = 0
    /\ ethReceipt = [h \in Hashes |-> <<>>]
    /\ ethAnswer = <<>>

IdleBtc ==
    /\ btcTx = [h \in Hashes |-> <<>>]
    /\ btcAnswer = <<>>

IdleSign ==
    /\ issued = <<>>
    /\ signed = <<>>
    /\ thrown = 0

IdleBtcPay ==
    /\ btcUtxo = <<>>
    /\ btcEstimate = 0
    /\ btcPrepared = <<>>
    /\ btcBatches = <<>>

IdleDeposits ==
    /\ ethReceived = <<>>
    /\ btcReceived = <<>>

InitPay ==
    /\ ethBalance \in [Addresses -> Balances]
    /\ ethGasPrice \in GasPrices
    /\ ethTxCount = [a \in Addresses |-> 0]
    /\ prepared = NotPrepared
    /\ IdleEthBlocks /\ IdleSign /\ IdleBtc /\ IdleBtcPay /\ IdleDeposits

NextPay == PreparePaymentCall \/ PreparePaymentTaken \/ EthChainMoves

\* Preparation of payments, account model.
SpecPay == InitPay /\ [][NextPay]_vars

----------------------------------------------------------------------------
(* Properties of preparePayment, account model                             *)

\* The pending spend the caller supplied for an address: the balance of its
\* entry in the spentBalances list, nothing when it has no entry.
PendingSpendOf(spentBalances, address) ==
    SumSeq([i \in 1..Len(spentBalances) |->
               IF spentBalances[i].address = address THEN spentBalances[i].balance ELSE 0])

\* The amount the caller requested under an identifier.
RequestedAmount(toAddresses, id) ==
    SumSeq([i \in 1..Len(toAddresses) |->
               IF toAddresses[i].id = id THEN toAddresses[i].amount ELSE 0])

\* How many entries of a list of transactions carry an identifier.
CountId(txs, id) == Cardinality({ i \in 1..Len(txs) : txs[i].id = id })

\* The sum of the requested amounts of the successful requests assigned to a wallet.
AssignedTo(call, address) ==
    SumSeq([i \in 1..Len(call.result.successTransactions) |->
               IF call.result.successTransactions[i].wallet.address = address
                 THEN RequestedAmount(call.toAddresses, call.result.successTransactions[i].id)
                 ELSE 0])

\* Some wallet's caller-supplied pending spend exceeds its confirmed balance.
InconsistentSpend(call) ==
    \E a \in Addresses : PendingSpendOf(call.spentBalances, a) > call.confirmed[a]

\* C7: getReserveWithSpentBalances yields every input wallet exactly once, in
\* input order, with address and key unchanged and with balance equal to the
\* confirmed balance minus the wallet's pending spend (the confirmed balance
\* itself when the wallet has no entry or a pending spend of zero).
C7_Reconciled ==
    prepared.called =>
        /\ Len(prepared.reserves) = Len(ReserveWallets)
        /\ \A i \in 1..Len(ReserveWallets) :
              /\ prepared.reserves[i].address = ReserveWallets[i].address
              /\ prepared.reserves[i].privateKey = ReserveWallets[i].privateKey
              /\ prepared.reserves[i].balance =
                    prepared.confirmed[ReserveWallets[i].address]
                      - PendingSpendOf(prepared.spentBalances, ReserveWallets[i].address)

\* C7 happens: one wallet has a pending spend that lowers its balance, another
\* wallet has no entry and keeps a non-zero confirmed balance.
C7_Witness ==
    /\ prepared.called
    /\ \E i, j \in 1..Len(ReserveWallets) :
          /\ PendingSpendOf(prepared.spentBalances, ReserveWallets[i].address) > 0
          /\ prepared.reserves[i].balance < prepared.confirmed[ReserveWallets[i].address]
          /\ prepared.reserves[i].balance >= 0
          /\ \A k \in 1..Len(prepared.spentBalances) :
                prepared.spentBalances[k].address # ReserveWallets[j].address
          /\ prepared.reserves[j].balance = prepared.confirmed[ReserveWallets[j].address]
          /\ prepared.reserves[j].balance > 0

\* C8: when some wallet's pending spend exceeds its confirmed balance,
\* preparePayment reports a data-integrity error instead of returning an
\* allocation.
C8_IntegrityErrorReported ==
    (prepared.called /\ InconsistentSpend(prepared)) => prepared.outcome # "returned"

\* C9: every supplied request is in exactly one of successTransactions and
\* failedTransactions, exactly once; nothing else is in them; the call returns
\* rather than raises; a failed request keeps its requested amount; a
\* successful request is funded by one reserve wallet.
C9_Partition ==
    prepared.called =>
        LET ok   == prepared.result.successTransactions
            bad  == prepared.result.failedTransactions
            reqs == prepared.toAddresses
        IN  /\ prepared.outcome = "returned"
            /\ \A i \in 1..Len(reqs) : CountId(ok, reqs[i].id) + CountId(bad, reqs[i].id) = 1
            /\ Len(ok) + Len(bad) = Len(reqs)
            /\ \A i \in 1..Len(bad) : bad[i].amount = RequestedAmount(reqs, bad[i].id)
            /\ \A i \in 1..Len(ok) :
                  \E w \in 1..Len(ReserveWallets) : ok[i].wallet = ReserveWallets[w]

\* C9 happens: one call has a funded request and a request that fails for
\* lack of funds.
C9_Witness ==
    /\ prepared.called
    /\ Len(prepared.result.successTransactions) >= 1
    /\ Len(prepared.result.failedTransactions) >= 1
    /\ Len(prepared.toAddresses) >= 3

\* C10: for every reserve wallet, the requested amounts of the successful
\* requests assigned to it sum to at most its reconciled spendable balance.
C10_NoOverCommitment ==
    prepared.called =>
        \A i \in 1..Len(ReserveWallets) :
            AssignedTo(prepared, ReserveWallets[i].address) <= prepared.reserves[i].balance

\* The bound of C10 for the wallets whose pending spend is consistent.
NoOverCommitmentOfConsistentWallets ==
    prepared.called =>
        \A i \in 1..Len(ReserveWallets) :
            prepared.reserves[i].balance >= 0 =>
                AssignedTo(prepared, ReserveWallets[i].address) <= prepared.reserves[i].balance

\* The address of the wallet the result assigns to the i-th request, "none"
\* when the request is among the failed ones.
AssignedWallet(call, i) ==
    LET ok   == call.result.successTransactions
        hits == { k \in 1..Len(ok) : ok[k].id = call.toAddresses[i].id }
    IN  IF hits = {} THEN "none" ELSE ok[CHOOSE k \in hits : TRUE].wallet.address

\* What is left of the w-th wallet's spendable balance when the i-th request is
\* reached: its reconciled balance less the earlier requests assigned to it.
RemainingBefore(call, w, i) ==
    call.reserves[w].balance
      - SumSeq([j \in 1..(i - 1) |->
                   IF AssignedWallet(call, j) = ReserveWallets[w].address
                     THEN call.toAddresses[j].amount ELSE 0])

\* The identifiers of a list of transactions, in order.
IdsOf(txs) == [k \in 1..Len(txs) |-> txs[k].id]

\* s is t with some elements left out, the rest in the same order.
IsSubSeq(s, t) ==
    \E f \in [1..Len(s) -> 1..Len(t)] :
        /\ \A k \in 1..Len(s) : s[k] = t[f[k]]
        /\ \A k, l \in 1..Len(s) : k < l => f[k] < f[l]

\* C11: requests are taken in caller order; each goes to the first wallet, in
\* wallet order, whose remaining capacity (spendable balance less the amounts
\* already assigned in this batch) is >= the requested amount, and fails when
\* there is none.
C11_FirstFit ==
    prepared.called =>
        /\ \A i \in 1..Len(prepared.toAddresses) :
              LET fits == { w \in 1..Len(ReserveWallets) :
                              RemainingBefore(prepared, w, i) >= prepared.toAddresses[i].amount }
              IN  AssignedWallet(prepared, i) =
                      IF fits = {} THEN "none"
                      ELSE ReserveWallets[CHOOSE w \in fits : \A v \in fits : w <= v].address
        /\ IsSubSeq(IdsOf(prepared.result.successTransactions), IdsOf(prepared.toAddresses))
        /\ IsSubSeq(IdsOf(prepared.result.failedTransactions), IdsOf(prepared.toAddresses))

\* C11 happens: spendable balances [5, 3] and requests A = 4, B = 2, C = 3 (in
\* units of 10000 wei) give A -> wallet 1, B -> wallet 2, C failed.
C11_Witness ==
    /\ prepared.called
    /\ [w \in 1..Len(prepared.reserves) |-> prepared.reserves[w].balance] = <<50000, 30000>>
    /\ [i \in 1..Len(prepared.toAddresses) |-> prepared.toAddresses[i].amount]
          = <<40000, 20000, 30000>>
    /\ IdsOf(prepared.result.successTransactions) = <<"A", "B">>
    /\ AssignedWallet(prepared, 1) = ReserveWallets[1].address
    /\ AssignedWallet(prepared, 2) = ReserveWallets[2].address
    /\ IdsOf(prepared.result.failedTransactions) = <<"C">>

\* C12: every successful entry carries the requested amount less the fee, the
\* fee being gasPrice x 21000, one fee for the whole batch, so that amount plus
\* fee is the requested amount; every failed entry keeps the requested amount.
C12_FeeDeducted ==
    prepared.called =>
        LET r == prepared.result
        IN  /\ r.fee = r.prepareData.gasPrice * 21000
            /\ \A k \in 1..Len(r.successTransactions) :
                  /\ r.successTransactions[k].amount
                        = RequestedAmount(prepared.toAddresses, r.successTransactions[k].id)
                            - r.fee
                  /\ r.successTransactions[k].amount + r.fee
                        = RequestedAmount(prepared.toAddresses, r.successTransactions[k].id)
            /\ \A k \in 1..Len(r.failedTransactions) :
                  r.failedTransactions[k].amount
                        = RequestedAmount(prepared.toAddresses, r.failedTransactions[k].id)

\* C12 happens: a batch with two funded requests and a failed one, at a gas
\* price of 1 (a fee of 21000); a funded request of 40000 is carried as 19000.
C12_Witness ==
    /\ prepared.called
    /\ prepared.result.fee = 21000
    /\ Len(prepared.result.successTransactions) >= 2
    /\ Len(prepared.result.failedTransactions) >= 1
    /\ \E k \in 1..Len(prepared.result.successTransactions) :
          /\ prepared.result.successTransactions[k].amount = 19000
          /\ RequestedAmount(prepared.toAddresses,
                             prepared.result.successTransactions[k].id) = 40000

\* C20: every successful entry carries a strictly positive amount to transfer.
C20_PositiveTransferAmount ==
    prepared.called =>
        \A k \in 1..Len(prepared.result.successTransactions) :
            prepared.result.successTransactions[k].amount > 0

\* The amount of a successful entry is positive exactly when more than the fee
\* was requested.
PositiveIffAboveFee ==
    prepared.called =>
        \A k \in 1..Len(prepared.result.successTransactions) :
            (prepared.result.successTransactions[k].amount > 0)
                <=> (RequestedAmount(prepared.toAddresses,
                                     prepared.result.successTransactions[k].id)
                        > prepared.result.fee)

----------------------------------------------------------------------------
(* Account model: signing                                                  *)

\* A change of signTransaction: the returned state keeps the nonce it was given.
SignTransactionKeepingNonce(wallet, toAddress, amount, data) ==
    LET nonce == data.wallets[wallet.address].nonce
        tx    == [nonce |-> nonce,
                  gasPrice |-> IF "gasPrice" \in DOMAIN data THEN data.gasPrice ELSE 0,
                  value |-> amount, to |-> toAddress, gas |-> GasLimit,
                  key |-> wallet.privateKey]
    IN  [hash |-> tx, data |-> [wallets |-> data.wallets], signedTransaction |-> tx]

\* A change of signTransaction: the transaction is built with the next nonce.
SignTransactionWithNextNonce(wallet, toAddress, amount, data) ==
    LET nonce == data.wallets[wallet.address].nonce
        tx    == [nonce |-> nonce + 1,
                  gasPrice |-> IF "gasPrice" \in DOMAIN data THEN data.gasPrice ELSE 0,
                  value |-> amount, to |-> toAddress, gas |-> GasLimit,
                  key |-> wallet.privateKey]
    IN  [hash |-> tx,
         data |-> [wallets |-> [data.wallets EXCEPT ![wallet.address].nonce = nonce + 1]],
         signedTransaction |-> tx]

\* A change of signTransaction: the returned state has every wallet's nonce
\* incremented.
SignTransactionIncrementingAll(wallet, toAddress, amount, data) ==
    LET nonce == data.wallets[wallet.address].nonce
        tx    == [nonce |-> nonce,
                  gasPrice |-> IF "gasPrice" \in DOMAIN data THEN data.gasPrice ELSE 0,
                  value |-> amount, to |-> toAddress, gas |-> GasLimit,
                  key |-> wallet.privateKey]
    IN  [hash |-> tx,
         data |-> [wallets |-> [a \in DOMAIN data.wallets |->
                                   [nonce |-> data.wallets[a].nonce + 1]]],
         signedTransaction |-> tx]

\* signTransaction(wallet, toAddress, amount, data), when it returns.
\* `data` is a JavaScript object: a function on the keys it has.  The signed
\* transaction and its hash are determined by the fields signed and the key;
\* they are kept as that content.  A `data` without gasPrice gives
\* toHex(undefined); where that is passed on, the transaction library takes
\* the field's default, the empty value 0.
SignTransaction(wallet, toAddress, amount, data) ==
    LET gasPrice == IF "gasPrice" \in DOMAIN data THEN data.gasPrice ELSE 0
        wallets  == data.wallets
        nonce    == wallets[wallet.address].nonce
        tx       == [nonce |-> nonce, gasPrice |-> gasPrice, value |-> amount,
                     to |-> toAddress, gas |-> GasLimit, key |-> wallet.privateKey]
    IN  [hash |-> tx,
         data |-> [wallets |-> [wallets EXCEPT ![wallet.address].nonce = nonce + 1]],
         signedTransaction |-> tx]

\* The sequencing states obtained from preparePayment so far.
PreparedStates == { s \in 1..Len(issued) : issued[s].from = 0 }

\* A caller obtains sequencing state: the prepareData of a preparePayment call
\* joins the state objects callers hold.  One call is followed: the node's
\* answers do not change here, so a second call returns an equal object.
PrepareDataIssued ==
    /\ PreparedStates = {}
    /\ issued' = Append(issued, [data |-> PrepareData(ReserveWallets), from |-> 0])
    /\ UNCHANGED <<signed, thrown, ethChainVars, ethBlockVars, payVars, btcVars,
                 btcPayVars, depositVars>>

\* Task t calls signTransaction for reserve wallet w with state object s, any
\* of the objects returned so far: nothing in the provider restricts which.
\* The call returns; its returned state joins the objects callers hold.
SignTransactionCall(t, w, s, toAddress, amount) ==
    /\ Len(signed) + thrown < MaxSigned
    /\ LET r == SignTransaction(ReserveWallets[w], toAddress, amount, issued[s].data)
       IN  /\ signed' = Append(signed,
                            [task |-> t, wallet |-> ReserveWallets[w].address, input |-> s,
                             hash |-> r.hash, signedTransaction |-> r.signedTransaction])
           /\ issued' = Append(issued, [data |-> r.data, from |-> Len(signed) + 1])
    /\ UNCHANGED <<thrown, ethChainVars, ethBlockVars, payVars, btcVars,
                 btcPayVars, depositVars>>

\* The same call where toHex(undefined) raises instead (the outcome depends on
\* the web3 release): no transaction and no state are returned.
SignTransactionThrows(t, w, s) ==
    /\ Len(signed) + thrown < MaxSigned
    /\ "gasPrice" \notin DOMAIN issued[s].data
    /\ thrown' = thrown + 1
    /\ UNCHANGED <<issued, signed, ethChainVars, ethBlockVars, payVars, btcVars,
                 btcPayVars, depositVars>>

InitSign ==
    /\ ethBalance = [a \in Addresses |-> 0]
    /\ ethGasPrice \in GasPrices
    /\ ethTxCount \in [Addresses -> Nonces]
    /\ prepared = NotPrepared
    /\ IdleSign /\ IdleEthBlocks /\ IdleBtc /\ IdleBtcPay /\ IdleDeposits

NextSign ==
    \/ PrepareDataIssued
    \/ \E t \in Tasks, w \in 1..Len(ReserveWallets), s \in 1..Len(issued),
          toAddress \in Destinations, amount \in SignedAmounts :
            SignTransactionCall(t, w, s, toAddress, amount)
    \/ \E t \in Tasks, w \in 1..Len(ReserveWallets), s \in 1..Len(issued) :
            SignTransactionThrows(t, w, s)

\* Signing, account model: any task may call with any state object it holds.
SpecSign == InitSign /\ [][NextSign]_vars

----------------------------------------------------------------------------
(* Properties of signTransaction                                           *)

\* The signed transactions whose returned states lead to state object s, and
\* the prepareData object the chain of s starts from.
RECURSIVE Lineage(_)
Lineage(s) ==
    IF issued[s].from = 0 THEN {}
    ELSE {issued[s].from} \cup Lineage(signed[issued[s].from].input)

RECURSIVE Root(_)
Root(s) == IF issued[s].from = 0 THEN s ELSE Root(signed[issued[s].from].input)

\* The state object returned by the call that signed transaction k.
Returned(k) == CHOOSE s \in 1..Len(issued) : issued[s].from = k

\* The earlier calls for the same wallet on the chain of states given to call k.
EarlierSameWallet(k) ==
    { j \in Lineage(signed[k].input) : signed[j].wallet = signed[k].wallet }

NonceOf(k) == signed[k].signedTransaction.nonce

\* C1: a call given the state reached from a state with nonce n for its wallet
\* through i earlier calls for that wallet, each given the state returned by
\* the one before, signs with nonce n + i, whichever tasks made the calls: k
\* such calls carry n, n+1, ..., n+k-1, each once.
C1_SequentialNonces ==
    \A k \in 1..Len(signed) :
        NonceOf(k) = issued[Root(signed[k].input)].data.wallets[signed[k].wallet].nonce
                        + Cardinality(EarlierSameWallet(k))

\* C1 happens: three calls for one wallet, chained from nonce 7, made by more
\* than one task, carry 7, 8 and 9.
C1_Witness ==
    \E k \in 1..Len(signed) :
        /\ Cardinality(EarlierSameWallet(k)) = 2
        /\ issued[Root(signed[k].input)].data.wallets[signed[k].wallet].nonce = 7
        /\ { NonceOf(j) : j \in EarlierSameWallet(k) \cup {k} } = {7, 8, 9}
        /\ \E j \in EarlierSameWallet(k) : signed[j].task # signed[k].task

\* C2: a call signs with the nonce stored for its wallet in the state it is
\* given and returns a state in which that nonce is one more.
C2_NonceReadAndIncremented ==
    \A k \in 1..Len(signed) :
        LET given == issued[signed[k].input].data.wallets[signed[k].wallet].nonce
        IN  /\ NonceOf(k) = given
            /\ issued[Returned(k)].data.wallets[signed[k].wallet].nonce = given + 1

\* C2 happens: a call given nonce 7 signed with 7 and returned 8.
C2_Witness ==
    \E k \in 1..Len(signed) :
        /\ NonceOf(k) = 7
        /\ issued[Returned(k)].data.wallets[signed[k].wallet].nonce = 8

\* C3: the state a call returns has every field the next call reads, so every
\* transaction signed by feeding state forward carries the gas price fixed by
\* preparePayment.
C3_ReturnedStateComplete ==
    /\ \A s \in 1..Len(issued) : {"gasPrice", "wallets"} \subseteq DOMAIN issued[s].data
    /\ \A k \in 1..Len(signed) :
          signed[k].signedTransaction.gasPrice
              = issued[Root(signed[k].input)].data.gasPrice

\* C4 as claimed: no two signed transactions of one wallet carry the same nonce.
C4_NoCollisionEver ==
    \A j, k \in 1..Len(signed) :
        (j # k /\ signed[j].wallet = signed[k].wallet) => NonceOf(j) # NonceOf(k)

\* C4, amended: two signed transactions of one wallet carry different nonces
\* whenever one call was given a state that descends from the state the other
\* returned; the provider leaves any other pair of calls free to collide.
C4_SequencedCallsDoNotCollide ==
    \A j, k \in 1..Len(signed) :
        (j \in Lineage(signed[k].input) /\ signed[j].wallet = signed[k].wallet)
            => NonceOf(j) # NonceOf(k)

\* C4 happens: two tasks sign for one wallet, the second given the state the
\* first returned, with different nonces; a third call given the first state
\* again repeats a nonce.
C4_Witness ==
    \E i, j, k \in 1..Len(signed) :
        /\ signed[i].wallet = signed[j].wallet /\ signed[j].wallet = signed[k].wallet
        /\ i \in Lineage(signed[j].input) /\ signed[i].task # signed[j].task
        /\ NonceOf(i) # NonceOf(j)
        /\ k # i /\ signed[k].input = signed[i].input
        /\ NonceOf(k) = NonceOf(i)

\* The nonce map of the state given to call k, and of the state it returned.
WalletsGiven(k)    == issued[signed[k].input].data.wallets
WalletsReturned(k) == issued[Returned(k)].data.wallets

\* The nonce map a call returns differs from the one it was given in the
\* signing wallet's nonce only: same wallets, every other entry equal.
NonceMapFramed ==
    \A k \in 1..Len(signed) :
        /\ DOMAIN WalletsReturned(k) = DOMAIN WalletsGiven(k)
        /\ \A a \in DOMAIN WalletsGiven(k) \ {signed[k].wallet} :
              WalletsReturned(k)[a] = WalletsGiven(k)[a]
        /\ DOMAIN WalletsReturned(k)[signed[k].wallet] = {"nonce"}
        /\ WalletsReturned(k)[signed[k].wallet].nonce # WalletsGiven(k)[signed[k].wallet].nonce

\* Two calls given the same state object for the same wallet read the same nonce.
SameInputSameNonce ==
    \A j, k \in 1..Len(signed) :
        (signed[j].input = signed[k].input /\ signed[j].wallet = signed[k].wallet)
            => NonceOf(j) = NonceOf(k)

\* No step changes a state object that was already returned.
StateObjectsKept ==
    /\ Len(issued') >= Len(issued)
    /\ \A s \in 1..Len(issued) : issued'[s] = issued[s]

----------------------------------------------------------------------------
(* Confirmation of a transaction, account model                            *)

\* config.confirmations.ethereum: the configured confirmation threshold.
EthConfirmations == 2

\* isConfirmedTransactionByHash(hash), account model:
\*   tx && tx.status === true && blockNumber - tx.blockNumber >= countConfirmations
\* `a && b` is a when a is falsy: with no receipt (tx null) the value is null.
EthIsConfirmedTransactionByHash(hash) ==
    LET tx                 == ethReceipt[hash]
        blockNumber        == ethHeight
        countConfirmations == EthConfirmations
    IN  IF tx = <<>> THEN Null
        ELSE IF tx[1].status # TRUE THEN "false"
        ELSE JsBool(blockNumber - tx[1].blockNumber >= countConfirmations)

\* The node learns of a new block.
EthNewBlock ==
    /\ ethHeight < MaxHeight
    /\ ethHeight' = ethHeight + 1
    /\ UNCHANGED <<ethReceipt, ethAnswer, ethChainVars, payVars, signVars, btcVars,
                 btcPayVars, depositVars>>

\* A transaction is included in the current block; its execution succeeded or
\* failed.  From then on the node has a receipt for it.
EthIncluded(hash, status) ==
    /\ ethReceipt[hash] = <<>>
    /\ ethReceipt' = [ethReceipt EXCEPT ![hash] =
                         <<[status |-> status, blockNumber |-> ethHeight]>>]
    /\ UNCHANGED <<ethHeight, ethAnswer, ethChainVars, payVars, signVars, btcVars,
                 btcPayVars, depositVars>>

\* A caller asks whether a transaction is confirmed.
EthIsConfirmedCall(hash) ==
    /\ ethAnswer' = <<[hash |-> hash, tx |-> ethReceipt[hash], blockNumber |-> ethHeight,
                       result |-> EthIsConfirmedTransactionByHash(hash)]>>
    /\ UNCHANGED <<ethHeight, ethReceipt, ethChainVars, payVars, signVars, btcVars,
                 btcPayVars, depositVars>>

InitEthConfirm ==
    /\ IdleEthChain
    /\ prepared = NotPrepared
    /\ IdleEthBlocks /\ IdleSign /\ IdleBtc /\ IdleBtcPay /\ IdleDeposits

NextEthConfirm ==
    \/ EthNewBlock
    \/ \E hash \in Hashes, status \in BOOLEAN : EthIncluded(hash, status)
    \/ \E hash \in Hashes : EthIsConfirmedCall(hash)

\* Confirmation queries, account model.
SpecEthConfirm == InitEthConfirm /\ [][NextEthConfirm]_vars

\* The receipt read by the last call exists, reports success, and lies at
\* least the threshold below the block number read.
EthAnswerIsOfConfirmed ==
    /\ ethAnswer[1].tx # <<>>
    /\ ethAnswer[1].tx[1].status = TRUE
    /\ ethAnswer[1].blockNumber - ethAnswer[1].tx[1].blockNumber >= EthConfirmations

\* C5: isConfirmedTransactionByHash returns true iff a receipt exists, its
\* status is success and chainHeight - txBlockHeight >= threshold, and returns
\* false otherwise.
C5_TrueIffConfirmedElseFalse ==
    ethAnswer # <<>> =>
        ethAnswer[1].result = (IF EthAnswerIsOfConfirmed THEN "true" ELSE "false")

\* What holds of the value returned: it is true exactly for a confirmed
\* transaction, and otherwise false or, with no receipt, null.
EthTrueIffConfirmed ==
    ethAnswer # <<>> =>
        /\ (ethAnswer[1].result = "true") <=> EthAnswerIsOfConfirmed
        /\ (ethAnswer[1].result = Null) <=> (ethAnswer[1].tx = <<>>)
        /\ ethAnswer[1].result \in {"true", "false", Null}

----------------------------------------------------------------------------
(* Confirmation of a transaction, output model                             *)

\* config.confirmations.bitcoin: the configured confirmation threshold.
BtcConfirmations == 3

\* A change of R.lte: strictly less.
RLt(a, b) == a < b

\* R.lte(a)(b): a <= b
RLte(a, b) == a <= b

\* isConfirmedTransactionByHash(hash), output model, when the explorer knows
\* the transaction: R.pathSatisfies(R.lte(threshold), ['data', 'confirmations']).
BtcIsConfirmedTransactionByHash(hash) ==
    JsBool(RLte(BtcConfirmations, btcTx[hash][1].confirmations))

\* A transaction reaches the explorer, unconfirmed.
BtcSeen(hash) ==
    /\ btcTx[hash] = <<>>
    /\ btcTx' = [btcTx EXCEPT ![hash] = <<[confirmations |-> 0]>>]
    /\ UNCHANGED <<btcAnswer, ethChainVars, ethBlockVars, payVars, signVars,
                 btcPayVars, depositVars>>

\* The explorer reports one more confirmation of a transaction.
BtcConfirmed(hash) ==
    /\ btcTx[hash] # <<>>
    /\ btcTx[hash][1].confirmations < MaxConfirmations
    /\ btcTx' = [btcTx EXCEPT ![hash] = <<[confirmations |-> @[1].confirmations + 1]>>]
    /\ UNCHANGED <<btcAnswer, ethChainVars, ethBlockVars, payVars, signVars,
                 btcPayVars, depositVars>>

\* A caller asks whether a transaction the explorer knows is confirmed.
BtcIsConfirmedCall(hash) ==
    /\ btcTx[hash] # <<>>
    /\ btcAnswer' = <<[hash |-> hash, confirmations |-> btcTx[hash][1].confirmations,
                       result |-> BtcIsConfirmedTransactionByHash(hash)]>>
    /\ UNCHANGED <<btcTx, ethChainVars, ethBlockVars, payVars, signVars,
                 btcPayVars, depositVars>>

\* A caller asks about a transaction the explorer does not know: the request
\* fails and the call rejects.
BtcIsConfirmedRejects(hash) ==
    /\ btcTx[hash] = <<>>
    /\ btcAnswer' = <<[hash |-> hash, result |-> "rejected"]>>
    /\ UNCHANGED <<btcTx, ethChainVars, ethBlockVars, payVars, signVars,
                 btcPayVars, depositVars>>

InitBtcConfirm ==
    /\ IdleEthChain
    /\ prepared = NotPrepared
    /\ IdleEthBlocks /\ IdleSign /\ IdleBtc /\ IdleBtcPay /\ IdleDeposits

NextBtcConfirm ==
    \E hash \in Hashes :
        \/ BtcSeen(hash)
        \/ BtcConfirmed(hash)
        \/ BtcIsConfirmedCall(hash)
        \/ BtcIsConfirmedRejects(hash)

\* Confirmation queries, output model.
SpecBtcConfirm == InitBtcConfirm /\ [][NextBtcConfirm]_vars

\* C6: isConfirmedTransactionByHash returns true iff the confirmations the
\* explorer reports for the transaction are >= the threshold; with fewer it
\* returns false.
C6_TrueIffThresholdReached ==
    btcAnswer # <<>> =>
        /\ (btcAnswer[1].result = "true") <=>
               ( /\ "confirmations" \in DOMAIN btcAnswer[1]
                 /\ btcAnswer[1].confirmations >= BtcConfirmations )
        /\ (btcAnswer[1].result = "false") <=>
               ( /\ "confirmations" \in DOMAIN btcAnswer[1]
                 /\ btcAnswer[1].confirmations < BtcConfirmations )

\* C6 happens: a transaction with exactly the threshold of confirmations is
\* answered true.
C6_Witness ==
    /\ btcAnswer # <<>>
    /\ btcAnswer[1].result = "true"
    /\ btcAnswer[1].confirmations = BtcConfirmations

\* The boundary below: threshold - 1 confirmations is answered false.
C6_BelowThreshold ==
    /\ btcAnswer # <<>>
    /\ btcAnswer[1].result = "false"
    /\ btcAnswer[1].confirmations = BtcConfirmations - 1

----------------------------------------------------------------------------
(* Deposits, account model                                                 *)

\* Most transactions in one answer of the transaction-list API.
MaxFetched == 2

\* An address string is kept as its lower-case form and whether it is written
\* in lower case or with capitals (a checksum address).
AddressForms == {"a1", "x1"} \X {"lower", "mixed"}

\* String.prototype.toLowerCase / R.toLower on an address string.
ToLower(str) == <<str[1], "lower">>

\* The transactions the API may list: plain transfers and contract calls
\* (input data not '0x') between the reserve address and another one, to and
\* from written in either case.
EthRawTransactions ==
    [from : AddressForms, to : AddressForms, input : {"0x", "0xa9059cbb"},
     value : {70000}, gasPrice : GasPrices, confirmations : {3}, hash : {<<"h1", "mixed">>}]

\* this.reserveWalletIds: the identifiers of the reserve wallets, by address
\* as generateWallet returns it (lower case).
ReserveWalletIds == [a \in {<<"a1", "lower">>} |-> "id1"]

\* getReceivedTransactions(address), account model, on the list the API
\* answered (its answer null gives the empty list, as an empty answer does).
\* Amounts are in wei: value / 1e18 ether, gasPrice x 21000 / 1e18 ether.
\* reserveId is undefined (<<>>) when reserveWalletIds has no key tx.to.
EthGetReceivedTransactions(address, transactions) ==
    LET reserveAddress == ToLower(address)
        keep == SelectSeq(transactions,
                    LAMBDA tx : tx.input = "0x" /\ ToLower(tx.to) = reserveAddress)
    IN  [i \in 1..Len(keep) |->
            [reserveId      |-> IF keep[i].to \in DOMAIN ReserveWalletIds
                                  THEN <<ReserveWalletIds[keep[i].to]>> ELSE <<>>,
             fromAddress    |-> ToLower(keep[i].from),
             reserveAddress |-> reserveAddress,
             amount         |-> keep[i].value,
             fee            |-> keep[i].gasPrice * GasLimit,
             confirmations  |-> keep[i].confirmations,
             hash           |-> ToLower(keep[i].hash)]]

\* A caller asks for the deposits of a reserve address (one call at a time is
\* followed); the API answers with some list of transactions.
EthGetReceivedCall ==
    /\ ethReceived = <<>>
    /\ \E form \in {"lower", "mixed"}, transactions \in SeqUpTo(EthRawTransactions, MaxFetched) :
          ethReceived' = <<[address      |-> <<"a1", form>>,
                            transactions |-> transactions,
                            result       |-> EthGetReceivedTransactions(<<"a1", form>>,
                                                                        transactions)]>>
    /\ UNCHANGED <<btcReceived, ethChainVars, ethBlockVars, payVars, signVars, btcVars,
                   btcPayVars>>

\* The caller has taken the result.
EthGetReceivedTaken ==
    /\ ethReceived # <<>>
    /\ ethReceived' = <<>>
    /\ UNCHANGED <<btcReceived, ethChainVars, ethBlockVars, payVars, signVars, btcVars,
                   btcPayVars>>

InitEthDeposits ==
    /\ IdleEthChain
    /\ prepared = NotPrepared
    /\ IdleEthBlocks /\ IdleSign /\ IdleBtc /\ IdleBtcPay /\ IdleDeposits

NextEthDeposits == EthGetReceivedCall \/ EthGetReceivedTaken

\* Detection of deposits, account model.
SpecEthDeposits == InitEthDeposits /\ [][NextEthDeposits]_vars

\* The rule of C16: empty call data, sent to the reserve address, not sent by it.
EthRuleClaimed(tx, reserveAddress) ==
    /\ tx.input = "0x"
    /\ ToLower(tx.to) = reserveAddress
    /\ ToLower(tx.from) # reserveAddress

\* The rule without the condition on the sender.
EthRuleWithoutSender(tx, reserveAddress) ==
    /\ tx.input = "0x"
    /\ ToLower(tx.to) = reserveAddress

\* The fetched transactions that qualify as deposits by each rule, in order.
EthQualifyingClaimed(call) ==
    SelectSeq(call.transactions, LAMBDA tx : EthRuleClaimed(tx, ToLower(call.address)))

EthQualifyingWithoutSender(call) ==
    SelectSeq(call.transactions, LAMBDA tx : EthRuleWithoutSender(tx, ToLower(call.address)))

\* The sender of each returned deposit and of each transaction.
EthSendersOfResult(result) == [i \in 1..Len(result) |-> result[i].fromAddress]
EthSendersOf(txs) == [i \in 1..Len(txs) |-> ToLower(txs[i].from)]

\* C16: the deposits returned are exactly the fetched transactions with empty
\* call data, sent to the reserve address (case normalised) and not sent by
\* the reserve address; no returned deposit has fromAddress = reserveAddress.
C16_DepositsExcludeSelfTransfers ==
    ethReceived # <<>> =>
        /\ Len(ethReceived[1].result) = Len(EthQualifyingClaimed(ethReceived[1]))
        /\ EthSendersOfResult(ethReceived[1].result)
              = EthSendersOf(EthQualifyingClaimed(ethReceived[1]))
        /\ \A i \in 1..Len(ethReceived[1].result) :
              ethReceived[1].result[i].fromAddress # ethReceived[1].result[i].reserveAddress

\* What holds: the deposits returned are the fetched transactions with empty
\* call data sent to the reserve address, whoever sent them.
EthDepositsAreTransfersToReserve ==
    ethReceived # <<>> =>
        /\ Len(ethReceived[1].result)
              = Len(EthQualifyingWithoutSender(ethReceived[1]))
        /\ EthSendersOfResult(ethReceived[1].result)
              = EthSendersOf(EthQualifyingWithoutSender(ethReceived[1]))
        /\ \A i \in 1..Len(ethReceived[1].result) :
              ethReceived[1].result[i].reserveAddress = ToLower(ethReceived[1].address)

----------------------------------------------------------------------------
(* Deposits, output model                                                  *)

\* Most transactions on one page of the address history.
MaxPageLen == 1

\* const countPages = 3: the pages pageNum = 0, 1, 2 are fetched.
CountPages == 3

BtcReserve == "r1"
BtcTxIds   == {"t1", "t2"}

\* An input {addr, value} and an output {value, scriptPubKey: {addresses}} of a
\* fetched transaction, values in satoshi.  An output whose script names no
\* address has no `addresses` property (BtcOutUnnamed: named is FALSE).
BtcIn(addr)       == [addr |-> addr, value |-> 50]
BtcOut(addresses) == [value |-> 20, named |-> TRUE, addresses |-> addresses]
BtcOutUnnamed     == [value |-> 20, named |-> FALSE, addresses |-> <<>>]

\* The transactions the history of the reserve address may hold: the API is
\* asked for txs/?address=<reserve>, which lists the transactions with the
\* address among the addresses of their inputs or outputs.
BtcVins  == { <<BtcIn("s1")>>, <<BtcIn("r1")>>, <<BtcIn("s1"), BtcIn("s1")>>,
              <<BtcIn("s1"), BtcIn("s2")>>, <<BtcIn("s1"), BtcIn("r1")>> }
BtcVouts == { <<BtcOut(<<"r1">>)>>, <<BtcOut(<<"s1">>)>>,
              <<BtcOut(<<"r1">>), BtcOut(<<"s1">>)>>,
              <<BtcOut(<<"r1">>), BtcOut(<<"r1">>)>>,
              <<BtcOut(<<"s1">>), BtcOut(<<"r1", "s2">>)>>,
              <<BtcOut(<<"r1">>), BtcOutUnnamed>> }

BtcInvolves(vin, vout, address) ==
    \/ \E i \in 1..Len(vin) : vin[i].addr = address
    \/ \E i \in 1..Len(vout) :
          /\ vout[i].named
          /\ \E k \in 1..Len(vout[i].addresses) : vout[i].addresses[k] = address

BtcBodies ==
    { b \in [vin : BtcVins, vout : BtcVouts] : BtcInvolves(b.vin, b.vout, BtcReserve) }

BtcRawTx(txid, body) ==
    [txid |-> txid, vin |-> body.vin, vout |-> body.vout, confirmations |-> 4]

\* R.flatten of the pages' lists.
RECURSIVE Flatten(_)
Flatten(lists) == IF lists = <<>> THEN <<>> ELSE Head(lists) \o Flatten(Tail(lists))

\* R.uniqBy(R.prop('txid')): the first transaction of each txid, in order.
UniqByTxid(txs) ==
    LET first == { i \in 1..Len(txs) : \A j \in 1..(i - 1) : txs[j].txid # txs[i].txid }
        RECURSIVE Take(_)
        Take(i) == IF i > Len(txs) THEN <<>>
                   ELSE IF i \in first THEN <<txs[i]>> \o Take(i + 1) ELSE Take(i + 1)
    IN  Take(1)

\* utils.toHashMap(tx.vin, 'addr', true): the object with one key for each
\* address the inputs name.
ToHashMapByAddr(vin) == [a \in { vin[i].addr : i \in 1..Len(vin) } |-> TRUE]

\* The filter of getReceivedTransactions.
BtcIsReceived(tx, reserveAddress) ==
    LET inputAddrHM == ToHashMapByAddr(tx.vin)
    IN  IF reserveAddress \in DOMAIN inputAddrHM \/ Cardinality(DOMAIN inputAddrHM) # 1
          THEN FALSE
          ELSE \A i \in 1..Len(tx.vout) :
                  ~(~tx.vout[i].named \/ Len(tx.vout[i].addresses) # 1)

\* A change of the filter: the sender may be the reserve address.
BtcIsReceivedAnySender(tx, reserveAddress) ==
    LET inputAddrHM == ToHashMapByAddr(tx.vin)
    IN  IF Cardinality(DOMAIN inputAddrHM) # 1
          THEN FALSE
          ELSE \A i \in 1..Len(tx.vout) :
                  ~(~tx.vout[i].named \/ Len(tx.vout[i].addresses) # 1)

\* tx.vout.reduce(...): the sum of the values of the outputs whose first
\* address is the reserve address.
RECURSIVE BtcAmountTo(_, _)
BtcAmountTo(vout, reserveAddress) ==
    IF vout = <<>> THEN 0
    ELSE (IF Head(vout).addresses[1] = reserveAddress THEN Head(vout).value ELSE 0)
            + BtcAmountTo(Tail(vout), reserveAddress)

RECURSIVE BtcValueOf(_)
BtcValueOf(list) == IF list = <<>> THEN 0 ELSE Head(list).value + BtcValueOf(Tail(list))

\* The deposit reported for a transaction that passed the filter.
BtcDepositOf(tx, reserveAddress) ==
    [fromAddress    |-> tx.vin[1].addr,
     reserveAddress |-> reserveAddress,
     amount         |-> BtcAmountTo(tx.vout, reserveAddress),
     fee            |-> BtcValueOf(tx.vin) - BtcValueOf(tx.vout),
     confirmations  |-> tx.confirmations,
     hash           |-> tx.txid]

BtcDepositsOf(txs, reserveAddress) ==
    [i \in 1..Len(txs) |-> BtcDepositOf(txs[i], reserveAddress)]

\* A change of getReceivedTransactions: no R.uniqBy.
BtcGetReceivedWithoutUniq(reserveAddress, pages) ==
    BtcDepositsOf(SelectSeq(Flatten(pages),
                            LAMBDA tx : BtcIsReceived(tx, reserveAddress)),
                  reserveAddress)

\* A change of getReceivedTransactions: the filter lets the reserve's own
\* transactions through.
BtcGetReceivedAnySender(reserveAddress, pages) ==
    BtcDepositsOf(SelectSeq(UniqByTxid(Flatten(pages)),
                            LAMBDA tx : BtcIsReceivedAnySender(tx, reserveAddress)),
                  reserveAddress)

\* getReceivedTransactions(reserveAddress), output model, on the pages the API
\* answered.
BtcGetReceivedTransactions(reserveAddress, pages) ==
    BtcDepositsOf(SelectSeq(UniqByTxid(Flatten(pages)),
                            LAMBDA tx : BtcIsReceived(tx, reserveAddress)),
                  reserveAddress)

\* A caller asks for the deposits of the reserve address (one call at a time
\* is followed).  The three pages are fetched together; each answer lists some
\* transactions of the history, and the same transaction may be on several.
BtcGetReceivedCall ==
    /\ btcReceived = <<>>
    /\ \E body \in [BtcTxIds -> BtcBodies],
          ids \in [1..CountPages -> SeqUpTo(BtcTxIds, MaxPageLen)] :
          LET pages == [p \in 1..CountPages |->
                          [i \in 1..Len(ids[p]) |-> BtcRawTx(ids[p][i], body[ids[p][i]])]]
          IN  btcReceived' = <<[reserveAddress |-> BtcReserve,
                                pages          |-> pages,
                                result         |-> BtcGetReceivedTransactions(BtcReserve,
                                                                              pages)]>>
    /\ UNCHANGED <<ethReceived, ethChainVars, ethBlockVars, payVars, signVars, btcVars,
                   btcPayVars>>

\* The caller has taken the result.
BtcGetReceivedTaken ==
    /\ btcReceived # <<>>
    /\ btcReceived' = <<>>
    /\ UNCHANGED <<ethReceived, ethChainVars, ethBlockVars, payVars, signVars, btcVars,
                   btcPayVars>>

InitBtcDeposits ==
    /\ IdleEthChain
    /\ prepared = NotPrepared
    /\ IdleEthBlocks /\ IdleSign /\ IdleBtc /\ IdleBtcPay /\ IdleDeposits

NextBtcDeposits == BtcGetReceivedCall \/ BtcGetReceivedTaken

\* Detection of deposits, output model.
SpecBtcDeposits == InitBtcDeposits /\ [][NextBtcDeposits]_vars

\* The transactions on the fetched pages of a call, and the deposits returned
\* for a transaction.
BtcFetched(call) ==
    UNION { { call.pages[p][i] : i \in 1..Len(call.pages[p]) } : p \in 1..CountPages }

BtcDepositsFor(call, txid) ==
    { i \in 1..Len(call.result) : call.result[i].hash = txid }

\* The rule of C15 for a transaction to be a deposit to the reserve address.
BtcQualifies(tx, reserveAddress) ==
    /\ Cardinality({ tx.vin[i].addr : i \in 1..Len(tx.vin) }) = 1
    /\ \A i \in 1..Len(tx.vin) : tx.vin[i].addr # reserveAddress
    /\ \A i \in 1..Len(tx.vout) :
          tx.vout[i].named /\ Len(tx.vout[i].addresses) = 1
    /\ \E i \in 1..Len(tx.vout) : tx.vout[i].addresses = <<reserveAddress>>

BtcPaidTo(tx, reserveAddress) ==
    SumSeq([i \in 1..Len(tx.vout) |->
               IF tx.vout[i].addresses = <<reserveAddress>> THEN tx.vout[i].value ELSE 0])

BtcFeeOf(tx) ==
    SumSeq([i \in 1..Len(tx.vin) |-> tx.vin[i].value])
        - SumSeq([i \in 1..Len(tx.vout) |-> tx.vout[i].value])

C17_Deduplicated ==
    btcReceived # <<>> =>
        /\ \A i, j \in 1..Len(btcReceived[1].result) :
              btcReceived[1].result[i].hash = btcReceived[1].result[j].hash => i = j
        /\ \A tx \in BtcFetched(btcReceived[1]) :
              BtcQualifies(tx, btcReceived[1].reserveAddress)
                  => Cardinality(BtcDepositsFor(btcReceived[1], tx.txid)) = 1

\* Overlapping pages: a qualifying transaction is on two of the fetched pages
\* and the list returned holds one deposit.
C17_Witness ==
    /\ btcReceived # <<>>
    /\ \E p, q \in 1..CountPages :
          /\ p # q
          /\ btcReceived[1].pages[p] # <<>>
          /\ btcReceived[1].pages[p] = btcReceived[1].pages[q]
          /\ BtcQualifies(btcReceived[1].pages[p][1], btcReceived[1].reserveAddress)
    /\ Len(btcReceived[1].result) = 1

----------------------------------------------------------------------------
(* Output model: preparation of a batch                                    *)

\* Most prepared batches a caller keeps.
MaxBatches == 2

\* Requested amounts, in tenths of a satoshi (1e-9 coin), so that an amount
\* may have a ninth decimal: 0.000000015, 0.00000002 and 0.00000005 coin.
BtcAmounts == {15, 20, 50}

\* The lists of requests given to preparePayment, in every order of amounts.
BtcRequestLists ==
    UNION { { [i \in 1..k |-> Request(RequestIds[i], "d1", am[i])] :
                am \in [1..k -> BtcAmounts] } : k \in 0..MaxRequests }

\* The outputs paid to the reserve wallets that the API may list as unspent:
\* {address, txid, vout, satoshis, confirmations}.
BtcOutputs ==
    <<[address |-> "a1", txid |-> "u1", vout |-> 0, satoshis |-> 4],
      [address |-> "a1", txid |-> "u2", vout |-> 1, satoshis |-> 3],
      [address |-> "a2", txid |-> "u1", vout |-> 1, satoshis |-> 6]>>

\* The answers of utils/estimatefee for 2 blocks, as data[blocks] * 1e8: no
\* estimate (-1 coin per kB) and 5632 satoshi per kB.
BtcEstimates == {-100000000, 5632}

\* getUnspentOutputs(address): what the API lists for the address.
GetUnspentOutputs(address) == SelectSeq(btcUtxo, LAMBDA o : o.address = address)

\* getEstimateFee(blocks): Math.round(data[blocks] * 1e8 / 1024), at least 2.
\* Math.round rounds to the nearest integer, a half towards +infinity.
GetEstimateFee ==
    LET estimateFee == (2 * btcEstimate + 1024) \div 2048
    IN  IF estimateFee > 2 THEN estimateFee ELSE 2

\* The key `${txid}${vout}` of an output; transaction identifiers have one
\* length, so the concatenation determines both parts.
OutputKey(txid, vout) == <<txid, vout>>

\* utils.toHashMap(spentOutputs): the object with a key for each listed output.
ToHashMapOfOutputs(spentOutputs) ==
    [k \in { OutputKey(spentOutputs[i].txid, spentOutputs[i].vout) :
                i \in 1..Len(spentOutputs) } |-> TRUE]

\* The comparator given to R.sort, and its reverse.
ByAmount(a, b)           == IF a.amount > b.amount THEN 1 ELSE -1
ByAmountDescending(a, b) == IF a.amount < b.amount THEN 1 ELSE -1

\* R.sort(comparator, list): a copy of the list in an order the comparator
\* agrees with, element by element.  The comparator of preparePayment answers
\* -1 for two equal amounts in either order, so their order is the engine's.
\* The comparator is given as the function of its answers on the elements.
RSort(comparator, list) ==
    LET n == Len(list)
        orders == { f \in [1..n -> 1..n] :
                      /\ \A i, j \in 1..n : i # j => f[i] # f[j]
                      /\ \A i, j \in 1..n :
                            i < j => comparator[list[f[i]], list[f[j]]] <= 0 }
    IN  { [i \in 1..n |-> list[f[i]]] : f \in orders }

\* A change of preparePayment: the requests are sorted largest first.
BtcSortRequestsDescending(toAddresses) ==
    LET elements == { toAddresses[i] : i \in 1..Len(toAddresses) }
    IN  RSort([a \in elements, b \in elements |-> ByAmountDescending(a, b)], toAddresses)

\* R.sort((a, b) => (a.amount > b.amount ? 1 : -1), toAddresses).
BtcSortRequests(toAddresses) ==
    LET elements == { toAddresses[i] : i \in 1..Len(toAddresses) }
    IN  RSort([a \in elements, b \in elements |-> ByAmount(a, b)], toAddresses)

\* parseInt(new Big(amount).times(1e8).round(0, 0).toString(), 10): big.js
\* rounding mode 0 is ROUND_DOWN, which drops the digits after the point.
ToSatoshi(amount) == amount \div 10

\* The transactions handed to coin selection, from the sorted requests.
BtcTransactions(sorted) ==
    [i \in 1..Len(sorted) |->
        [id        |-> sorted[i].id,
         amount    |-> sorted[i].amount,
         toAddress |-> sorted[i].address,
         value     |-> ToSatoshi(sorted[i].amount)]]

\* A change of preparePayment: outputs listed as spent are not left out.
BtcTransformUtxoKeepingSpent(utxo, spentOutputsHashMap) ==
    LET kept == SelectSeq(utxo, LAMBDA o : o.confirmations > 0)
    IN  [i \in 1..Len(kept) |->
            [address |-> kept[i].address, txid |-> kept[i].txid, vout |-> kept[i].vout,
             satoshis |-> kept[i].satoshis, confirmations |-> kept[i].confirmations,
             value |-> kept[i].satoshis]]

\* transformedUtxo: the confirmed outputs not listed as spent, each with
\* value = satoshis.
BtcTransformUtxo(utxo, spentOutputsHashMap) ==
    LET kept == SelectSeq(utxo, LAMBDA o :
                    /\ o.confirmations > 0
                    /\ ~(OutputKey(o.txid, o.vout) \in DOMAIN spentOutputsHashMap))
    IN  [i \in 1..Len(kept) |->
            [address |-> kept[i].address, txid |-> kept[i].txid, vout |-> kept[i].vout,
             satoshis |-> kept[i].satoshis, confirmations |-> kept[i].confirmations,
             value |-> kept[i].satoshis]]

\* The elements of a list at the positions in S, in order.
RECURSIVE PickFrom(_, _, _)
PickFrom(list, S, i) ==
    IF i > Len(list) THEN <<>>
    ELSE (IF i \in S THEN <<list[i]>> ELSE <<>>) \o PickFrom(list, S, i + 1)

BtcRequestsOf(transactions) ==
    [i \in 1..Len(transactions) |->
        [id |-> transactions[i].id, amount |-> transactions[i].amount,
         toAddress |-> transactions[i].toAddress]]

\* commonProvider.coinSelect(utxo, transactions, feeRate): either every
\* request fails and no input is chosen, or every request succeeds with
\* inputs chosen among the outputs given, whose value covers what is
\* requested and a fee of at least feeRate (a transaction is no shorter than
\* one byte).  Which of these, and the fee, the change output and userFee,
\* follow from a size model that is left open here.
CoinSelect(utxo, transactions, feeRate) ==
    { [failedTransactions  |-> BtcRequestsOf(transactions),
       successTransactions |-> <<>>,
       inputs              |-> <<>>] }
    \cup
    { [failedTransactions  |-> <<>>,
       successTransactions |-> BtcRequestsOf(transactions),
       inputs              |-> PickFrom(utxo, S, 1)] :
        S \in { T \in SUBSET (1..Len(utxo)) :
                  /\ transactions # <<>>
                  /\ T # {}
                  /\ SumSeq([i \in 1..Len(utxo) |-> IF i \in T THEN utxo[i].value ELSE 0])
                        >= SumSeq([i \in 1..Len(transactions) |-> transactions[i].value])
                              + feeRate } }

\* The outputs chosen by the kept batches that are not broadcast yet, as the
\* caller lists them in spentOutputs: [{txid, vout}].
RECURSIVE BtcPendingInputs(_)
BtcPendingInputs(batches) ==
    IF batches = <<>> THEN <<>>
    ELSE (IF Head(batches).broadcast THEN <<>>
          ELSE [i \in 1..Len(Head(batches).inputs) |->
                  [txid |-> Head(batches).inputs[i].txid,
                   vout |-> Head(batches).inputs[i].vout]])
         \o BtcPendingInputs(Tail(batches))

\* preparePayment(toAddresses, spentOutputs), output model (one call at a
\* time is followed).  The caller lists the inputs of its kept batches.
BtcPreparePaymentCall ==
    /\ btcPrepared = <<>>
    /\ \E toAddresses \in BtcRequestLists :
          LET spentOutputs == BtcPendingInputs(btcBatches)
              utxo == Flatten([w \in 1..Len(ReserveWallets) |->
                                  GetUnspentOutputs(ReserveWallets[w].address)])
              feeRate == GetEstimateFee
              spentOutputsHashMap == ToHashMapOfOutputs(spentOutputs)
              transformedUtxo == BtcTransformUtxo(utxo, spentOutputsHashMap)
          IN  \E sorted \in BtcSortRequests(toAddresses) :
                 \E result \in CoinSelect(transformedUtxo, BtcTransactions(sorted), feeRate) :
                    btcPrepared' = <<[toAddresses     |-> toAddresses,
                                      spentOutputs    |-> spentOutputs,
                                      feeRate         |-> feeRate,
                                      transactions    |-> BtcTransactions(sorted),
                                      transformedUtxo |-> transformedUtxo,
                                      result          |-> result]>>
    /\ UNCHANGED <<btcUtxo, btcEstimate, btcBatches>>
    /\ UNCHANGED <<ethChainVars, ethBlockVars, payVars, signVars, btcVars, depositVars>>

\* The caller drops the prepared batch.
BtcPreparedDropped ==
    /\ btcPrepared # <<>>
    /\ btcPrepared' = <<>>
    /\ UNCHANGED <<btcUtxo, btcEstimate, btcBatches>>
    /\ UNCHANGED <<ethChainVars, ethBlockVars, payVars, signVars, btcVars, depositVars>>

\* The caller keeps the prepared batch for signing and broadcast.
BtcBatchKept ==
    /\ btcPrepared # <<>>
    /\ btcPrepared[1].result.inputs # <<>>
    /\ Len(btcBatches) < MaxBatches
    /\ btcBatches' = Append(btcBatches, [inputs    |-> btcPrepared[1].result.inputs,
                                         broadcast |-> FALSE])
    /\ btcPrepared' = <<>>
    /\ UNCHANGED <<btcUtxo, btcEstimate>>
    /\ UNCHANGED <<ethChainVars, ethBlockVars, payVars, signVars, btcVars, depositVars>>

\* A kept batch is signed and broadcast: its inputs are no longer unspent.
BtcBatchBroadcast(k) ==
    /\ btcPrepared = <<>>
    /\ k \in 1..Len(btcBatches)
    /\ ~btcBatches[k].broadcast
    /\ btcBatches' = [btcBatches EXCEPT ![k].broadcast = TRUE]
    /\ btcUtxo' = SelectSeq(btcUtxo, LAMBDA o :
                     \A i \in 1..Len(btcBatches[k].inputs) :
                        OutputKey(btcBatches[k].inputs[i].txid, btcBatches[k].inputs[i].vout)
                            # OutputKey(o.txid, o.vout))
    /\ UNCHANGED <<btcEstimate, btcPrepared>>
    /\ UNCHANGED <<ethChainVars, ethBlockVars, payVars, signVars, btcVars, depositVars>>

InitBtcPay ==
    /\ \E conf \in [1..Len(BtcOutputs) -> {0, 2}] :
          btcUtxo = [i \in 1..Len(BtcOutputs) |->
                        [address |-> BtcOutputs[i].address, txid |-> BtcOutputs[i].txid,
                         vout |-> BtcOutputs[i].vout, satoshis |-> BtcOutputs[i].satoshis,
                         confirmations |-> conf[i]]]
    /\ btcEstimate \in BtcEstimates
    /\ btcPrepared = <<>>
    /\ btcBatches = <<>>
    /\ IdleEthChain
    /\ prepared = NotPrepared
    /\ IdleEthBlocks /\ IdleSign /\ IdleBtc /\ IdleDeposits

NextBtcPay ==
    \/ BtcPreparePaymentCall
    \/ BtcPreparedDropped
    \/ BtcBatchKept
    \/ \E k \in 1..MaxBatches : BtcBatchBroadcast(k)

\* Preparation of batches, output model.
SpecBtcPay == InitBtcPay /\ [][NextBtcPay]_vars

----------------------------------------------------------------------------
(* Properties of the output-model preparation                              *)

\* C13: the list handed to coin selection is a permutation of the requests
\* supplied, in non-decreasing order of amount, whatever the input order.
C13_RequestsSortedAscending ==
    btcPrepared # <<>> =>
        LET given  == btcPrepared[1].toAddresses
            handed == btcPrepared[1].transactions
        IN  /\ Len(handed) = Len(given)
            /\ \A i \in 1..Len(given) :
                  Cardinality({ k \in 1..Len(handed) :
                                  /\ handed[k].id = given[i].id
                                  /\ handed[k].amount = given[i].amount
                                  /\ handed[k].toAddress = given[i].address }) = 1
            /\ \A i, j \in 1..Len(handed) :
                  i < j => handed[i].amount <= handed[j].amount

\* Requests X = 5 and Y = 2 satoshi, given as X then Y, are handed on as Y
\* then X.
C13_Witness ==
    /\ btcPrepared # <<>>
    /\ Len(btcPrepared[1].toAddresses) = 2
    /\ btcPrepared[1].toAddresses[1].amount = 50
    /\ btcPrepared[1].toAddresses[2].amount = 20
    /\ btcPrepared[1].transactions[1].id = btcPrepared[1].toAddresses[2].id
    /\ btcPrepared[1].transactions[2].id = btcPrepared[1].toAddresses[1].id

BtcKeysOf(outputs) ==
    { OutputKey(outputs[i].txid, outputs[i].vout) : i \in 1..Len(outputs) }

\* C14: an unspent output reaches coin selection only if it has a
\* confirmation and is not in the spentOutputs given; with every call given
\* the inputs of the kept batches not broadcast yet, no output is an input of
\* two batches.
C14_EligibleInputsNeverReused ==
    /\ btcPrepared # <<>> =>
          /\ \A i \in 1..Len(btcPrepared[1].transformedUtxo) :
                /\ btcPrepared[1].transformedUtxo[i].confirmations > 0
                /\ OutputKey(btcPrepared[1].transformedUtxo[i].txid,
                             btcPrepared[1].transformedUtxo[i].vout)
                      \notin BtcKeysOf(btcPrepared[1].spentOutputs)
          /\ \A k \in 1..Len(btcBatches) :
                BtcKeysOf(btcPrepared[1].result.inputs) \cap BtcKeysOf(btcBatches[k].inputs)
                    = {}
    /\ \A k, l \in 1..Len(btcBatches) :
          k # l => BtcKeysOf(btcBatches[k].inputs) \cap BtcKeysOf(btcBatches[l].inputs) = {}

\* A second batch is prepared while the first is kept and not broadcast: an
\* unspent, confirmed output is held back because the first batch has it.
C14_Witness ==
    /\ btcPrepared # <<>>
    /\ btcPrepared[1].result.inputs # <<>>
    /\ Len(btcBatches) = 1
    /\ ~btcBatches[1].broadcast
    /\ \E i \in 1..Len(btcUtxo) :
          /\ btcUtxo[i].confirmations > 0
          /\ OutputKey(btcUtxo[i].txid, btcUtxo[i].vout) \in BtcKeysOf(btcBatches[1].inputs)
          /\ OutputKey(btcUtxo[i].txid, btcUtxo[i].vout)
                \notin BtcKeysOf(btcPrepared[1].transformedUtxo)

\* C18: the amount of a request is converted to satoshi by rounding half away
\* from zero (a ninth decimal digit of 5 or more rounds up), and an amount of
\* at most 8 decimals converts to exactly amount x 10^8.
C18_RoundsHalfAwayFromZero ==
    btcPrepared # <<>> =>
        \A i \in 1..Len(btcPrepared[1].transactions) :
            /\ btcPrepared[1].transactions[i].value
                  = (btcPrepared[1].transactions[i].amount + 5) \div 10
            /\ btcPrepared[1].transactions[i].amount % 10 = 0
                  => btcPrepared[1].transactions[i].value * 10
                        = btcPrepared[1].transactions[i].amount

\* What holds: the conversion drops the ninth decimal, and is exact for an
\* amount of at most 8 decimals.
BtcConversionTruncates ==
    btcPrepared # <<>> =>
        \A i \in 1..Len(btcPrepared[1].transactions) :
            /\ btcPrepared[1].transactions[i].value * 10
                  <= btcPrepared[1].transactions[i].amount
            /\ btcPrepared[1].transactions[i].amount
                  < (btcPrepared[1].transactions[i].value + 1) * 10
            /\ btcPrepared[1].transactions[i].amount % 10 = 0
                  => btcPrepared[1].transactions[i].value * 10
                        = btcPrepared[1].transactions[i].amount

====
